---- MODULE Spec2Model ----
(***************************************************************************)
(* Model of the useApiRequest hook (src/useApiRequest.ts): the request     *)
(* state of each hook instance, the module-level cache, the asynchronous   *)
(* attempts in flight (start delay, awaited operation, retry backoff) and  *)
(* the host's calls (mount, render, refetch, setData, reset).              *)
(*                                                                         *)
(* Time is in milliseconds.  Data values and errors are strings; Null      *)
(* stands for JavaScript null/undefined and "" is a falsy, non-null value. *)
(***************************************************************************)
EXTENDS Integers, Sequences, FiniteSets, TLC

\* ------------------------------------------------------------------ bounds
MaxTime == 3000          \* the clock does not advance beyond this time
MaxInFlight == 2         \* invokes that may be suspended at the same time
MaxCalls == 1            \* calls the host makes after mounting (render, refetch, setData, reset)

TickSteps == {1000}      \* clock granularity (ms)
Delays == {0, 1000}      \* values of the delay option
RetryLimits == {0, 1, 2} \* values of the maxRetries option when autoRetry is on
DefaultMaxRetries == 3   \* maxRetries = 3
CacheTTLs == {1000}      \* values of the cacheTTL option (single instance)
SharedTTLs == {1000, 2000} \* values of the cacheTTL option (two instances)
Results == {"", "a"}     \* values the operation resolves with ("" is falsy)
Errors == {"e1", "e2"}   \* values the operation rejects with
DepSeqs == {<<1>>, <<2>>, <<1, 2>>}  \* dependency arrays the host renders with
LiveResults == {"a"}     \* results, errors and dependency arrays where only
LiveErrors == {"e1"}     \* the progress of the invokes is looked at
LiveDepSeqs == {<<1>>, <<2>>}

Null == "null"
NoKey == "undefined"
Keys == {"u1"}

VARIABLES
  cfg,       \* per instance: the options of the hook (fixed after construction)
  now,       \* Date.now()
  cache,     \* the module-level cache: key -> CacheItem or NoItem
  state,     \* per instance: data, status, error, retryCount, isFetched
  deps,      \* per instance: the dependency array of the last render
  mounted,   \* per instance: whether the effects of the first render have run
  inflight,  \* the suspended invokes (fetchWithRetry chains), oldest first
  storedAt,  \* key -> when, by what and by which instance (0: an earlier one) the
             \* entry was last written, the re-writes of cache hits not counted
  calls,     \* number of calls the host has made after mounting
  last       \* what the last step did

vars == <<cfg, now, cache, state, deps, mounted, inflight, storedAt, calls, last>>

Insts == DOMAIN cfg

Min(a, b) == IF a < b THEN a ELSE b

\* ------------------------------------------------------------- JavaScript
\* if (x) / x || y / x && y : null, undefined and "" are falsy
Truthy(v) == v /= Null /\ v /= ""

\* ------------------------------------------------------------------ cache
NoItem == [data |-> Null, timestamp |-> -1]

CacheItem(v, t) == [data |-> v, timestamp |-> t]

\* const isExpired = Date.now() - cachedItem.timestamp > cacheTTL
IsExpired(item, c, t) == t - item.timestamp > c.cacheTTL

\* if (!shouldCache || !cacheKey)
CacheOn(c) == c.cache /\ c.cacheKey /= NoKey

\* getCachedData(): the value read and the cache after the read (an expired
\* entry is deleted by the read)
GetCachedDataKeep(c, cch, t) ==
  IF ~CacheOn(c) THEN [data |-> Null, cache |-> cch]
  ELSE LET cachedItem == cch[c.cacheKey] IN
       IF cachedItem = NoItem THEN [data |-> Null, cache |-> cch]
       ELSE IF IsExpired(cachedItem, c, t)
            THEN [data |-> Null, cache |-> cch]
            ELSE [data |-> cachedItem.data, cache |-> cch]
GetCachedData(c, cch, t) ==
  IF ~CacheOn(c) THEN [data |-> Null, cache |-> cch]
  ELSE LET cachedItem == cch[c.cacheKey] IN
       IF cachedItem = NoItem THEN [data |-> Null, cache |-> cch]
       ELSE IF IsExpired(cachedItem, c, t)
            THEN [data |-> Null, cache |-> [cch EXCEPT ![c.cacheKey] = NoItem]]
            ELSE [data |-> cachedItem.data, cache |-> cch]

\* ------------------------------------------------------------ retry policy
\* retryDelay = (attempt) => Math.min(1000 * 2 ** attempt, 30000)
retryDelayOfNext(attempt) == Min(1000 * 2^(attempt + 1), 30000)
retryDelay(attempt) == Min(1000 * 2^attempt, 30000)

\* if (autoRetry && attempt < maxRetries)
ShouldRetryForever(c, attempt) == c.autoRetry
ShouldRetryOneMore(c, attempt) == c.autoRetry /\ attempt <= c.maxRetries
ShouldRetry(c, attempt) == c.autoRetry /\ attempt < c.maxRetries

\* ------------------------------------------------------------- hook state
\* useState initial values
InitialState(c, cch, t) ==
  LET cached == GetCachedData(c, cch, t).data IN
  [data       |-> IF Truthy(cached) THEN cached ELSE c.initialData,
   status     |-> IF c.manual THEN "idle" ELSE "loading",
   error      |-> Null,
   retryCount |-> 0,
   isFetched  |-> FALSE]

\* setData(newData): the hook state and the cache after the call
SetData(s, c, cch, t, newData) ==
  [state |-> IF newData /= Null
             THEN [s EXCEPT !.data = newData, !.status = "success"]
             ELSE [s EXCEPT !.data = newData],
   cache |-> IF newData /= Null /\ CacheOn(c) /\ Truthy(newData)
             THEN [cch EXCEPT ![c.cacheKey] = CacheItem(newData, t)]
             ELSE cch]

\* reset()
ResetKeepRetry(s, c) ==
  [s EXCEPT !.data = c.initialData, !.status = "idle", !.error = Null,
            !.isFetched = FALSE]
Reset(s, c) ==
  [data |-> c.initialData, status |-> "idle", error |-> Null,
   retryCount |-> 0, isFetched |-> FALSE]

\* fetch(): setStatus("loading")
SetLoadingClear(s) == [s EXCEPT !.status = "loading", !.data = Null]
SetLoading(s) == [s EXCEPT !.status = "loading"]

\* ---------------------------------------------------------- fetchWithRetry
Slots == 1..Len(inflight)

InFlight(i) == {k \in Slots : inflight[k].inst = i}

Remove(seq, k) == [j \in 1..(Len(seq) - 1) |-> IF j < k THEN seq[j] ELSE seq[j + 1]]

\* fetchWithRetry(attempt) up to its first suspension point: the cache
\* lookup, then either the cache-hit return, the start delay, or the call of
\* requestFnRef.current().  runs counts the calls of the operation made by
\* this invoke.
Attempt(c, s, cch, t, attempt, runs) ==
  LET read == GetCachedData(c, cch, t)
      cachedData == read.data
  IN IF Truthy(cachedData)
     THEN LET sd == SetData(s, c, read.cache, t, cachedData)
          IN [state |-> [sd.state EXCEPT !.status = "success"], cache |-> sd.cache,
              hit |-> TRUE, pc |-> "resolved", due |-> 0, runs |-> runs,
              value |-> cachedData]
     ELSE IF c.delay > 0
          THEN [state |-> s, cache |-> read.cache, hit |-> FALSE, pc |-> "delay",
                due |-> t + c.delay, runs |-> runs, value |-> Null]
          ELSE [state |-> s, cache |-> read.cache, hit |-> FALSE, pc |-> "await",
                due |-> 0, runs |-> runs + 1, value |-> Null]

\* the try block after the operation resolved with result
OnSuccessNotFetched(c, s, cch, t, result) ==
  LET sd == SetData(s, c, cch, t, result)
  IN [state |-> [sd.state EXCEPT !.status = "success", !.retryCount = 0],
      cache |-> IF CacheOn(c)
                THEN [sd.cache EXCEPT ![c.cacheKey] = CacheItem(result, t)]
                ELSE sd.cache]
OnSuccessClearError(c, s, cch, t, result) ==
  LET sd == SetData(s, c, cch, t, result)
  IN [state |-> [sd.state EXCEPT !.status = "success", !.isFetched = TRUE,
                                 !.retryCount = 0, !.error = Null],
      cache |-> IF CacheOn(c)
                THEN [sd.cache EXCEPT ![c.cacheKey] = CacheItem(result, t)]
                ELSE sd.cache]
OnSuccess(c, s, cch, t, result) ==
  LET sd == SetData(s, c, cch, t, result)
  IN [state |-> [sd.state EXCEPT !.status = "success", !.isFetched = TRUE,
                                 !.retryCount = 0],
      cache |-> IF CacheOn(c)
                THEN [sd.cache EXCEPT ![c.cacheKey] = CacheItem(result, t)]
                ELSE sd.cache]

\* the catch block: the state after it, whether a retry is scheduled
OnFailureKeepStatus(c, s, attempt, err) ==
  LET failed == [s EXCEPT !.error = err, !.isFetched = TRUE]
  IN IF ShouldRetry(c, attempt)
     THEN [state |-> [failed EXCEPT !.retryCount = attempt + 1], retry |-> TRUE,
           nextAttempt |-> attempt + 1, nextDelay |-> retryDelay(attempt)]
     ELSE [state |-> failed, retry |-> FALSE, nextAttempt |-> attempt, nextDelay |-> 0]
OnFailureCountAlways(c, s, attempt, err) ==
  LET failed == [s EXCEPT !.error = err, !.status = "error", !.isFetched = TRUE,
                          !.retryCount = attempt + 1]
  IN IF ShouldRetry(c, attempt)
     THEN [state |-> failed, retry |-> TRUE,
           nextAttempt |-> attempt + 1, nextDelay |-> retryDelay(attempt)]
     ELSE [state |-> failed, retry |-> FALSE, nextAttempt |-> attempt, nextDelay |-> 0]
OnFailure(c, s, attempt, err) ==
  LET failed == [s EXCEPT !.error = err, !.status = "error", !.isFetched = TRUE]
  IN IF ShouldRetry(c, attempt)
     THEN [state |-> [failed EXCEPT !.retryCount = attempt + 1], retry |-> TRUE,
           nextAttempt |-> attempt + 1, nextDelay |-> retryDelay(attempt)]
     ELSE [state |-> failed, retry |-> FALSE, nextAttempt |-> attempt, nextDelay |-> 0]

\* ------------------------------------------------------------ step record
\* outcome: what the step did to the promise of the invoke it belongs to
\* ("none" when the step belongs to no invoke); hit: the attempt was served
\* from the cache; runs: calls of the operation made so far by that invoke;
\* value: the result, error or argument; prev: the dependency array before a
\* render; stale: another invoke of the instance has started since this one
Step(op, i) ==
  [op |-> op, inst |-> i, outcome |-> "none", hit |-> FALSE, runs |-> 0,
   value |-> Null, prev |-> <<>>, stale |-> FALSE]

\* useEffect(..., deps): React re-runs the effect when some position of the
\* two arrays holds different values; positions beyond the shorter array are
\* not compared.
AreHookInputsEqualStrict(nextDeps, prevDeps) == nextDeps = prevDeps
AreHookInputsEqual(nextDeps, prevDeps) ==
  \A n \in 1..Min(Len(nextDeps), Len(prevDeps)) : nextDeps[n] = prevDeps[n]

\* ------------------------------------------------------------------ Init
Configs ==
  [manual : BOOLEAN, initialData : {Null, "i"}, delay : Delays,
   cache : BOOLEAN, cacheKey : {NoKey} \cup Keys, cacheTTL : CacheTTLs \cup SharedTTLs,
   autoRetry : BOOLEAN, maxRetries : RetryLimits \cup {DefaultMaxRetries}]

\* the option combinations the model explores
ValidConfig(c) ==
  /\ c.cache <=> c.cacheKey /= NoKey
  /\ c.autoRetry <=> c.maxRetries \in RetryLimits
  /\ c.delay > 0 <=> c.initialData /= Null

NeverStored == [at |-> -1, by |-> "none", inst |-> 0]

\* entries the invokes of an earlier hook instance may have left in the
\* module-level cache
InitialCaches == [Keys -> {NoItem} \cup {CacheItem(v, 0) : v \in {r \in Results : Truthy(r)}}]

InitWith(C) ==
  /\ cfg \in C
  /\ \A i \in DOMAIN cfg : ValidConfig(cfg[i])
  /\ now = 0
  /\ cache \in InitialCaches
  /\ \A k \in Keys : cache[k] /= NoItem => \E i \in DOMAIN cfg : CacheOn(cfg[i]) /\ cfg[i].cacheKey = k
  /\ state = [i \in DOMAIN cfg |-> InitialState(cfg[i], cache, now)]
  /\ deps \in [DOMAIN cfg -> {<<1>>}]
  /\ mounted = [i \in DOMAIN cfg |-> FALSE]
  /\ inflight = <<>>
  /\ storedAt = [k \in Keys |-> IF cache[k] = NoItem THEN NeverStored
                                 ELSE [at |-> cache[k].timestamp, by |-> "invoke", inst |-> 0]]
  /\ calls = 0
  /\ last = Step("init", 0)

Init == InitWith([{1} -> {c \in Configs : c.cacheTTL \in CacheTTLs}])

\* two hook instances that cache under the same key: instance 1 with the
\* shorter cacheTTL, no start delay and no retries, instance 2 with either
\* cacheTTL, a start delay and one retry
SharedConfigs ==
  {f \in [{1, 2} -> {c \in Configs : CacheOn(c) /\ ~c.manual /\ c.cacheTTL \in SharedTTLs}] :
     /\ f[1].cacheTTL <= f[2].cacheTTL
     /\ ~f[1].autoRetry /\ f[1].delay = 0 /\ f[1].cacheTTL \in CacheTTLs
     /\ f[2].autoRetry /\ f[2].maxRetries = 1 /\ f[2].delay > 0}

InitShared == InitWith(SharedConfigs)

\* --------------------------------------------------------------- actions
\* if (!manual) in the auto-execute effect
AutoExecuteAlways(c) == TRUE
AutoExecute(c) == ~c.manual

\* every invoke of instance i that is suspended becomes superseded
Supersede(fl, i) ==
  [k \in DOMAIN fl |-> IF fl[k].inst = i THEN [fl[k] EXCEPT !.stale = TRUE] ELSE fl[k]]

\* fetch(): setStatus("loading"); return fetchWithRetry()
Fetch(i, op, prev) ==
  LET c == cfg[i]
      a == Attempt(c, SetLoading(state[i]), cache, now, 0, 0)
  IN /\ a.hit \/ Len(inflight) < MaxInFlight
     /\ state' = [state EXCEPT ![i] = a.state]
     /\ cache' = a.cache
     /\ inflight' = IF a.hit THEN Supersede(inflight, i)
                    ELSE Append(Supersede(inflight, i),
                                [inst |-> i, pc |-> a.pc, attempt |-> 0, runs |-> a.runs,
                                 due |-> a.due, stale |-> FALSE])
     /\ last' = [Step(op, i) EXCEPT !.outcome = IF a.hit THEN "resolved" ELSE "pending",
                                    !.hit = a.hit, !.runs = a.runs, !.value = a.value,
                                    !.prev = prev]
     /\ UNCHANGED <<storedAt>>

\* the effects of the first render: useEffect(() => { if (!manual) fetch() }, deps)
Mount(i) ==
  /\ ~mounted[i]
  /\ mounted' = [mounted EXCEPT ![i] = TRUE]
  /\ IF AutoExecute(cfg[i])
     THEN Fetch(i, "mount", <<>>)
     ELSE /\ last' = Step("mount", i)
          /\ UNCHANGED <<state, cache, inflight, storedAt>>
  /\ UNCHANGED <<cfg, now, deps, calls>>

HostCall ==
  /\ calls < MaxCalls
  /\ calls' = calls + 1

\* a later render with dependency array d, and its effects
Render(i, d) ==
  /\ mounted[i]
  /\ HostCall
  /\ deps' = [deps EXCEPT ![i] = d]
  /\ IF ~AreHookInputsEqual(d, deps[i]) /\ AutoExecute(cfg[i])
     THEN Fetch(i, "render", deps[i])
     ELSE /\ last' = [Step("render", i) EXCEPT !.prev = deps[i]]
          /\ UNCHANGED <<state, cache, inflight, storedAt>>
  /\ UNCHANGED <<cfg, now, mounted>>

\* the host calls refetch()
Refetch(i) ==
  /\ mounted[i]
  /\ HostCall
  /\ Fetch(i, "refetch", <<>>)
  /\ UNCHANGED <<cfg, now, deps, mounted>>

\* the start delay elapsed: const result = await requestFnRef.current()
DelayFire(k) ==
  /\ inflight[k].pc = "delay"
  /\ now >= inflight[k].due
  /\ inflight' = [inflight EXCEPT ![k] = [@ EXCEPT !.pc = "await", !.due = 0,
                                                   !.runs = @ + 1]]
  /\ last' = [Step("delayFire", inflight[k].inst) EXCEPT
                !.outcome = "pending", !.runs = inflight[k].runs + 1,
                !.stale = inflight[k].stale]
  /\ UNCHANGED <<cfg, now, cache, state, deps, mounted, storedAt, calls>>

\* the operation resolved with result
OpSucceedIfCurrent(k, result) ==
  LET i == inflight[k].inst
      r == IF inflight[k].stale THEN [state |-> state[i], cache |-> cache]
           ELSE OnSuccess(cfg[i], state[i], cache, now, result)
  IN /\ inflight[k].pc = "await"
     /\ state' = [state EXCEPT ![i] = r.state]
     /\ cache' = r.cache
     /\ storedAt' = IF CacheOn(cfg[i]) /\ ~inflight[k].stale
                    THEN [storedAt EXCEPT ![cfg[i].cacheKey] = [at |-> now, by |-> "invoke", inst |-> i]]
                    ELSE storedAt
     /\ inflight' = Remove(inflight, k)
     /\ last' = [Step("opSuccess", i) EXCEPT
                   !.outcome = "resolved", !.runs = inflight[k].runs,
                   !.value = result, !.stale = inflight[k].stale]
     /\ UNCHANGED <<cfg, now, deps, mounted, calls>>
OpSucceed(k, result) ==
  LET i == inflight[k].inst
      r == OnSuccess(cfg[i], state[i], cache, now, result)
  IN /\ inflight[k].pc = "await"
     /\ state' = [state EXCEPT ![i] = r.state]
     /\ cache' = r.cache
     /\ storedAt' = IF CacheOn(cfg[i])
                    THEN [storedAt EXCEPT ![cfg[i].cacheKey] = [at |-> now, by |-> "invoke", inst |-> i]]
                    ELSE storedAt
     /\ inflight' = Remove(inflight, k)
     /\ last' = [Step("opSuccess", i) EXCEPT
                   !.outcome = "resolved", !.runs = inflight[k].runs,
                   !.value = result, !.stale = inflight[k].stale]
     /\ UNCHANGED <<cfg, now, deps, mounted, calls>>

\* the operation rejected with err
OpFail(k, err) ==
  LET i == inflight[k].inst
      f == OnFailure(cfg[i], state[i], inflight[k].attempt, err)
  IN /\ inflight[k].pc = "await"
     /\ state' = [state EXCEPT ![i] = f.state]
     /\ inflight' = IF f.retry
                    THEN [inflight EXCEPT ![k] = [@ EXCEPT !.pc = "backoff",
                                                           !.attempt = f.nextAttempt,
                                                           !.due = now + f.nextDelay]]
                    ELSE Remove(inflight, k)
     /\ last' = [Step("opFailure", i) EXCEPT
                   !.outcome = IF f.retry THEN "pending" ELSE "rejected",
                   !.runs = inflight[k].runs, !.value = err,
                   !.stale = inflight[k].stale]
     /\ UNCHANGED <<cfg, now, cache, deps, mounted, storedAt, calls>>

\* the backoff elapsed: return fetchWithRetry(nextAttempt)
BackoffFire(k) ==
  LET i == inflight[k].inst
      a == Attempt(cfg[i], state[i], cache, now, inflight[k].attempt, inflight[k].runs)
  IN /\ inflight[k].pc = "backoff"
     /\ now >= inflight[k].due
     /\ state' = [state EXCEPT ![i] = a.state]
     /\ cache' = a.cache
     /\ inflight' = IF a.hit THEN Remove(inflight, k)
                    ELSE [inflight EXCEPT ![k] = [@ EXCEPT !.pc = a.pc, !.due = a.due,
                                                           !.runs = a.runs]]
     /\ last' = [Step("backoffFire", i) EXCEPT
                   !.outcome = IF a.hit THEN "resolved" ELSE "pending",
                   !.hit = a.hit, !.runs = a.runs,
                   !.value = a.value, !.stale = inflight[k].stale]
     /\ UNCHANGED <<cfg, now, deps, mounted, storedAt, calls>>

\* the host calls setData(newData)
HostSetData(i, newData) ==
  LET sd == SetData(state[i], cfg[i], cache, now, newData)
  IN /\ mounted[i]
     /\ HostCall
     /\ state' = [state EXCEPT ![i] = sd.state]
     /\ cache' = sd.cache
     /\ storedAt' = IF newData /= Null /\ CacheOn(cfg[i]) /\ Truthy(newData)
                    THEN [storedAt EXCEPT ![cfg[i].cacheKey] = [at |-> now, by |-> "setData", inst |-> i]]
                    ELSE storedAt
     /\ last' = [Step("setData", i) EXCEPT !.value = newData]
     /\ UNCHANGED <<cfg, now, deps, mounted, inflight>>

\* the host calls reset()
HostResetCancel(i) ==
  /\ mounted[i]
  /\ HostCall
  /\ state' = [state EXCEPT ![i] = Reset(state[i], cfg[i])]
  /\ inflight' = SelectSeq(inflight, LAMBDA r : r.inst /= i)
  /\ last' = Step("reset", i)
  /\ UNCHANGED <<cfg, now, cache, deps, mounted, storedAt>>
HostReset(i) ==
  /\ mounted[i]
  /\ HostCall
  /\ state' = [state EXCEPT ![i] = Reset(state[i], cfg[i])]
  /\ last' = Step("reset", i)
  /\ UNCHANGED <<cfg, now, cache, deps, mounted, inflight, storedAt>>

\* time passes
Tick(d) ==
  /\ now + d <= MaxTime
  /\ now' = now + d
  /\ last' = Step("tick", 0)
  /\ UNCHANGED <<cfg, cache, state, deps, mounted, inflight, storedAt, calls>>

Next ==
  \/ \E i \in Insts : Mount(i)
  \/ \E i \in Insts, d \in DepSeqs : Render(i, d)
  \/ \E i \in Insts : Refetch(i)
  \/ \E k \in Slots : DelayFire(k)
  \/ \E k \in Slots, result \in Results : OpSucceed(k, result)
  \/ \E k \in Slots, err \in Errors : OpFail(k, err)
  \/ \E k \in Slots : BackoffFire(k)
  \/ \E i \in Insts, newData \in Results \cup {Null} : HostSetData(i, newData)
  \/ \E i \in Insts : HostReset(i)
  \/ \E d \in TickSteps : Tick(d)

Spec == Init /\ [][Next]_vars

SpecShared == InitShared /\ [][Next]_vars

\* ---------------------------------------------------- timers that do fire
\* a timer (start delay or retry backoff) of a suspended invoke is running
TimerPending == \E k \in Slots : inflight[k].pc \in {"delay", "backoff"} /\ inflight[k].due > now

\* time passes while a timer is running, so that every setTimeout comes due
\* (without caching, time that passes while no timer runs changes nothing)
TickLive(d) ==
  /\ TimerPending
  /\ now' = now + d
  /\ last' = Step("tick", 0)
  /\ UNCHANGED <<cfg, cache, state, deps, mounted, inflight, storedAt, calls>>

\* the awaited operation of some suspended invoke settles
OpSettles ==
  \/ \E k \in Slots, result \in LiveResults : OpSucceed(k, result)
  \/ \E k \in Slots, err \in LiveErrors : OpFail(k, err)

\* a timer that is due fires
TimerFires == \E k \in Slots : DelayFire(k) \/ BackoffFire(k)

NextLive ==
  \/ \E i \in Insts : Mount(i)
  \/ \E i \in Insts, d \in LiveDepSeqs : Render(i, d)
  \/ \E i \in Insts : Refetch(i)
  \/ TimerFires
  \/ OpSettles
  \/ \E i \in Insts, newData \in LiveResults \cup {Null} : HostSetData(i, newData)
  \/ \E i \in Insts : HostReset(i)
  \/ \E d \in TickSteps : TickLive(d)

\* hook instances without caching; one with a start delay retries at most once
LiveConfigs ==
  {c \in Configs : /\ ~CacheOn(c) /\ c.cacheTTL \in CacheTTLs
                   /\ (c.delay > 0 /\ c.autoRetry) => c.maxRetries <= 1}

InitLive == InitWith([{1} -> LiveConfigs])

\* every operation invocation eventually settles, time advances and due
\* timers fire
SpecLive ==
  /\ InitLive /\ [][NextLive]_vars
  /\ WF_vars(OpSettles)
  /\ WF_vars(TimerFires)
  /\ WF_vars(\E d \in TickSteps : TickLive(d))

\* ---------------------------------------------------------------- claims
Started == last.op \in {"mount", "render", "refetch"} /\ last.outcome /= "none"

\* C1: with caching disabled, an invoke whose every attempt fails calls the
\* operation exactly maxRetries + 1 times when autoRetry is on, and rejects
\* with the operation's error at the failure of call maxRetries + 1, not
\* before; with autoRetry off it calls the operation once and rejects at
\* that failure.
C1_RetriesThenRejects ==
  \A i \in Insts :
    (last.op = "opFailure" /\ last.inst = i /\ ~CacheOn(cfg[i])) =>
      /\ IF cfg[i].autoRetry
         THEN /\ last.runs <= cfg[i].maxRetries + 1
              /\ last.outcome = "rejected" <=> last.runs = cfg[i].maxRetries + 1
         ELSE last.outcome = "rejected" /\ last.runs = 1
      /\ last.outcome = "rejected" => state[i].error = last.value

C1_Witness ==
  \E i \in Insts :
    /\ last.op = "opFailure" /\ last.inst = i /\ last.outcome = "rejected"
    /\ ~CacheOn(cfg[i]) /\ cfg[i].autoRetry /\ cfg[i].maxRetries = 2 /\ last.runs = 3

\* C2: with caching on, after an invoke stored its result at t0, an invoke
\* begun at t is served from the cache (no call of the operation) iff
\* t - t0 <= cacheTTL, whatever the value and whatever cache hits happened
\* in between.
C2_ServedWithinTTL ==
  \A i \in Insts :
    (Started /\ last.inst = i /\ CacheOn(cfg[i])
       /\ storedAt[cfg[i].cacheKey].by = "invoke") =>
      (last.hit <=> now - storedAt[cfg[i].cacheKey].at <= cfg[i].cacheTTL)

\* C3: a read of a stored entry (v, t0) at time now returns v iff
\* now - t0 <= cacheTTL; otherwise it returns absent and removes the entry,
\* which then stays absent for every later read.
C3_ReadRule ==
  \A i \in Insts :
    CacheOn(cfg[i]) =>
      LET k == cfg[i].cacheKey
          read == GetCachedData(cfg[i], cache, now)
      IN cache[k] /= NoItem =>
           IF now - cache[k].timestamp <= cfg[i].cacheTTL
           THEN read.data = cache[k].data /\ read.cache = cache
           ELSE /\ read.data = Null
                /\ read.cache[k] = NoItem
                /\ \A t \in now..(MaxTime + 1000) :
                     GetCachedData(cfg[i], read.cache, t) = [data |-> Null, cache |-> read.cache]

\* an expired entry was read by an invoke and is gone
C3_Witness ==
  \E i \in Insts :
    /\ CacheOn(cfg[i]) /\ Started /\ last.inst = i /\ ~last.hit
    /\ cache[cfg[i].cacheKey] = NoItem
    /\ storedAt[cfg[i].cacheKey].at >= 0
    /\ now - storedAt[cfg[i].cacheKey].at > cfg[i].cacheTTL

\* C4: a manual instance is Idle after construction, its mount and its
\* renders (whatever the dependency array) change nothing and start no
\* invoke, and every invoke of it is started by refetch().
C4_ManualOnlyRefetch ==
  /\ [](\A i \in Insts : (cfg[i].manual /\ ~mounted[i]) =>
          (state[i].status = "idle" /\ InFlight(i) = {}))
  /\ [][\A i \in Insts : cfg[i].manual =>
          /\ (last'.inst = i /\ last'.op \in {"mount", "render"}) =>
               (state'[i] = state[i] /\ inflight' = inflight /\ last'.outcome = "none")
          /\ Cardinality({k \in DOMAIN inflight' : inflight'[k].inst = i})
               > Cardinality(InFlight(i)) => (last'.op = "refetch" /\ last'.inst = i)]_vars

C4_Witness ==
  \E i \in Insts :
    /\ cfg[i].manual /\ last.op = "render" /\ last.inst = i
    /\ deps[i] /= last.prev /\ state[i].status = "idle" /\ InFlight(i) = {}

\* C5 (as claimed): a non-manual instance starts one invoke at its mount and
\* one at each render whose dependency array differs from the previous one
\* in length or at some position, and none at a render with an unchanged
\* array.
DepsDiffer(a, b) == Len(a) /= Len(b) \/ \E n \in 1..Len(a) : a[n] /= b[n]

CommonPositionDiffers(a, b) == \E n \in 1..Min(Len(a), Len(b)) : a[n] /= b[n]

C6_RetryCountZeroOnSuccess ==
  \A i \in Insts :
    (last.outcome = "resolved" /\ last.inst = i) => state[i].retryCount = 0

\* C7: reset() leaves data = initialData, status = idle, error = null,
\* retryCount = 0, isFetched = false, and a second reset() right after it
\* changes nothing.
C7_ResetIdempotent ==
  /\ [](\A i \in Insts :
          Reset(Reset(state[i], cfg[i]), cfg[i]) = Reset(state[i], cfg[i]))
  /\ [][\A i \in Insts :
          (last'.op = "reset" /\ last'.inst = i) =>
            /\ state'[i] = [data |-> cfg[i].initialData, status |-> "idle",
                            error |-> Null, retryCount |-> 0, isFetched |-> FALSE]
            /\ (last.op = "reset" /\ last.inst = i) => state'[i] = state[i]]_vars

\* reset() called after a failed attempt, with its retry still pending
C7_Witness ==
  \E i \in Insts :
    /\ last.op = "reset" /\ last.inst = i /\ InFlight(i) /= {}
    /\ cfg[i].initialData /= Null /\ state[i].data = cfg[i].initialData
    /\ state[i].status = "idle" /\ state[i].retryCount = 0
    /\ \E k \in InFlight(i) : inflight[k].pc = "backoff"

\* C8: data changes only in a step where an invoke resolves, in setData or
\* in reset(); starting an invoke and a failed attempt leave it unchanged.
C8_DataKeptWhileFetching ==
  [][\A i \in Insts :
       state'[i].data /= state[i].data =>
         /\ last'.inst = i
         /\ last'.op \in {"setData", "reset"} \/ last'.outcome = "resolved"]_vars

C8_Witness ==
  \E i \in Insts :
    /\ state[i].data = "a" /\ state[i].isFetched /\ InFlight(i) /= {}
    /\ last.inst = i /\ last.op = "refetch" /\ state[i].status = "loading"

\* C9 (as claimed): the step in which an invoke rejects leaves status =
\* error and ends that invoke, a settled invoke takes no further step, an
\* invoke whose operation succeeds resolves with that result, and, while no
\* invoke of the instance is suspended, status = error stays until a step
\* that starts an invoke.
Settles == last'.op \in {"opSuccess", "opFailure", "backoffFire"}
             /\ last'.outcome \in {"resolved", "rejected"}

InFlightNext(i) == {k \in DOMAIN inflight' : inflight'[k].inst = i}

StartsInvoke(i) ==
  last'.inst = i /\ last'.op \in {"mount", "render", "refetch"} /\ last'.outcome /= "none"

RejectionIsFinal(i) ==
  /\ (last'.op = "opFailure" /\ last'.inst = i /\ last'.outcome = "rejected") =>
       state'[i].status = "error"
  /\ (Settles /\ last'.inst = i) =>
       /\ Len(inflight') = Len(inflight) - 1
       /\ Cardinality(InFlightNext(i)) = Cardinality(InFlight(i)) - 1
  /\ (last'.op = "opSuccess" /\ last'.inst = i) =>
       (last'.outcome = "resolved" /\ state'[i].data = last'.value)

C9_ErrorUntilNextInvoke ==
  [][\A i \in Insts :
       /\ RejectionIsFinal(i)
       /\ (state[i].status = "error" /\ InFlight(i) = {} /\ ~StartsInvoke(i)) =>
            (state'[i].status = "error" /\ InFlightNext(i) = {})]_vars

\* C9 (amended): as above, but status = error stays until a step that starts
\* an invoke, a reset() or a setData of a non-null value.
LeavesError(i) ==
  \/ StartsInvoke(i)
  \/ last'.inst = i /\ last'.op = "reset"
  \/ last'.inst = i /\ last'.op = "setData" /\ last'.value /= Null

C9_ErrorUntilNextHostCall ==
  [][\A i \in Insts :
       /\ RejectionIsFinal(i)
       /\ (state[i].status = "error" /\ InFlight(i) = {} /\ ~LeavesError(i)) =>
            (state'[i].status = "error" /\ InFlightNext(i) = {})]_vars

\* retries exhausted, nothing suspended, time has passed and the host has
\* set data to null: the status is still error
C9_Witness ==
  \E i \in Insts :
    /\ last.op = "setData" /\ last.inst = i /\ last.value = Null
    /\ state[i].status = "error" /\ InFlight(i) = {}
    /\ cfg[i].autoRetry /\ state[i].retryCount = cfg[i].maxRetries
    /\ cfg[i].maxRetries > 0 /\ now > 0

\* C10: loading (status = loading) holds exactly while some invoke of the
\* instance has started and has not yet resolved or rejected.  Stated for
\* the runs in which the host has made no call since the mount, so that only
\* the hook itself has written the status.
loading(i) == state[i].status = "loading"

C10_LoadingIffInProgress ==
  \A i \in Insts :
    (mounted[i] /\ calls = 0) => (loading(i) <=> InFlight(i) /= {})

\* C11 (as claimed): isFetched is false at construction and after reset(),
\* becomes true in every step in which an attempt of the instance settles
\* (the operation succeeds or fails) or an invoke of it resolves or rejects,
\* and changes in no other step.
IsReset(i) == last'.inst = i /\ last'.op = "reset"

OperationSettles(i) == last'.inst = i /\ last'.op \in {"opSuccess", "opFailure"}

InvokeSettles(i) == last'.inst = i /\ last'.outcome \in {"resolved", "rejected"}

C11_FetchedIffAttemptSettled ==
  /\ [](\A i \in Insts : ~mounted[i] => ~state[i].isFetched)
  /\ [][\A i \in Insts :
          state'[i].isFetched =
            IF IsReset(i) THEN FALSE
            ELSE IF OperationSettles(i) \/ InvokeSettles(i) THEN TRUE
            ELSE state[i].isFetched]_vars

\* C11 (amended): isFetched is false at construction and after reset(),
\* becomes true in every step in which a call of the operation settles
\* (succeeds or fails), and changes in no other step; an invoke that resolves
\* from the cache leaves it unchanged.
C11_FetchedIffOperationSettled ==
  /\ [](\A i \in Insts : ~mounted[i] => ~state[i].isFetched)
  /\ [][\A i \in Insts :
          state'[i].isFetched =
            IF IsReset(i) THEN FALSE
            ELSE IF OperationSettles(i) THEN TRUE
            ELSE state[i].isFetched]_vars

\* an invoke has resolved from the cache and no call of the operation has
\* settled: isFetched is still false, with status = success
C11_Witness ==
  \E i \in Insts :
    /\ Started /\ last.inst = i /\ last.outcome = "resolved" /\ last.hit
    /\ ~state[i].isFetched /\ state[i].status = "success" /\ last.runs = 0

\* C12: setData(v) sets data = v; for every non-null v it sets status =
\* success and, with caching on, stores (v, now) under cacheKey; for v = null
\* it leaves the status and the cache unchanged; in both cases error and
\* retryCount are unchanged.
C12_SetDataWritesThrough ==
  [][\A i \in Insts :
       (last'.op = "setData" /\ last'.inst = i) =>
         LET v == last'.value IN
         /\ state'[i].data = v
         /\ state'[i].error = state[i].error
         /\ state'[i].retryCount = state[i].retryCount
         /\ IF v /= Null
            THEN /\ state'[i].status = "success"
                 /\ CacheOn(cfg[i]) => cache'[cfg[i].cacheKey] = CacheItem(v, now)
                 /\ \A k \in Keys : (~CacheOn(cfg[i]) \/ k /= cfg[i].cacheKey) =>
                                      cache'[k] = cache[k]
            ELSE state'[i].status = state[i].status /\ cache' = cache]_vars

\* C13: error is null at construction, every failed attempt sets it to the
\* error the operation rejected with, reset() sets it to null, and no other
\* step (a successful attempt, a cache hit, the start of an invoke, setData,
\* a timer) changes it.
C13_ErrorIsLastFailure ==
  /\ [](\A i \in Insts : ~mounted[i] => state[i].error = Null)
  /\ [][\A i \in Insts :
          state'[i].error =
            IF IsReset(i) THEN Null
            ELSE IF last'.inst = i /\ last'.op = "opFailure" THEN last'.value
            ELSE state[i].error]_vars

\* an attempt failed, its retry succeeded: status = success with the error
\* of the failed attempt still there
C13_Witness ==
  \E i \in Insts :
    /\ last.inst = i /\ last.op = "opSuccess" /\ last.runs = 2
    /\ state[i].status = "success" /\ state[i].error \in Errors
    /\ state[i].data = last.value

\* C14: the default retry delay doubles from 1000 ms at attempt 0 up to
\* 16000 ms at attempt 4 and is 30000 ms from attempt 5 on (delayFor(0) =
\* 1000, delayFor(4) = 16000, delayFor(10) = 30000), and the backoff that
\* starts when attempt number a (0-based) fails ends delayFor(a) after that
\* failure: 1000 ms after the first failure.
DoublingDelays == <<1000, 2000, 4000, 8000, 16000>>

MaxAttemptChecked == 12   \* attempt numbers 0..12 are compared as values

C14_DefaultRetryDelay ==
  /\ [](/\ retryDelay(0) = 1000 /\ retryDelay(4) = 16000 /\ retryDelay(10) = 30000
        /\ \A a \in 0..MaxAttemptChecked :
             retryDelay(a) = IF a < Len(DoublingDelays) THEN DoublingDelays[a + 1]
                             ELSE 30000)
  /\ [][\A k \in DOMAIN inflight :
          (Len(inflight') = Len(inflight) /\ inflight[k].pc = "await"
             /\ inflight'[k].pc = "backoff") =>
            /\ inflight'[k].attempt = inflight[k].attempt + 1
            /\ inflight'[k].due = now + DoublingDelays[inflight[k].attempt + 1]
            /\ inflight[k].attempt = 0 => inflight'[k].due = now + 1000]_vars

\* the second attempt (number 1) of an invoke has just failed, 1000 ms after
\* the first: its backoff ends 2000 ms later
C14_Witness ==
  \E k \in Slots :
    /\ last.op = "opFailure" /\ last.outcome = "pending" /\ last.runs = 2
    /\ inflight[k].pc = "backoff" /\ inflight[k].attempt = 2 /\ inflight[k].runs = 2
    /\ now = 1000 /\ inflight[k].due = 3000

\* C15: an attempt of an invoke that has been superseded (another invoke of
\* the instance started after it) applies its outcome like any other: its
\* success sets data to its result, status = success and the cache entry to
\* (result, now); its failure sets error to its error and status = error;
\* whatever a later invoke has written in between.
C15_LastResolvedWins ==
  [][\A i \in Insts :
       (last'.inst = i /\ last'.stale) =>
         /\ last'.op = "opSuccess" =>
              /\ state'[i].data = last'.value /\ state'[i].status = "success"
              /\ CacheOn(cfg[i]) => cache'[cfg[i].cacheKey] = CacheItem(last'.value, now)
         /\ last'.op = "opFailure" =>
              /\ state'[i].error = last'.value /\ state'[i].status = "error"
         /\ (last'.op = "backoffFire" /\ last'.hit) =>
              /\ state'[i].data = last'.value /\ state'[i].status = "success"]_vars

\* retries are off; the later invoke has rejected (its error is still
\* there) and the superseded one has then resolved: status = success
C15_Witness ==
  \E i \in Insts :
    /\ last.inst = i /\ last.op = "opSuccess" /\ last.stale
    /\ ~cfg[i].autoRetry /\ InFlight(i) = {}
    /\ state[i].error \in Errors /\ state[i].status = "success"
    /\ state[i].data = last.value

\* C16: reset() leaves every suspended invoke as it is, and an attempt that
\* settles while the status is idle (a reset() ran since its invoke set
\* loading) applies its outcome: its success sets data, status = success,
\* isFetched and retryCount = 0, its failure sets error, status = error,
\* isFetched and, when a retry follows, retryCount >= 1; no invoke starts in
\* that step.
C16_ResetDoesNotCancel ==
  [][\A i \in Insts :
       /\ IsReset(i) => inflight' = inflight
       /\ (state[i].status = "idle" /\ last'.inst = i /\ last'.op = "opSuccess") =>
            /\ state'[i] = [data |-> last'.value, status |-> "success",
                            error |-> state[i].error, retryCount |-> 0,
                            isFetched |-> TRUE]
            /\ ~StartsInvoke(i)
       /\ (state[i].status = "idle" /\ last'.inst = i /\ last'.op = "opFailure") =>
            /\ state'[i].status = "error" /\ state'[i].error = last'.value
            /\ state'[i].isFetched /\ state'[i].data = state[i].data
            /\ IF last'.outcome = "pending" THEN state'[i].retryCount >= 1
               ELSE state'[i].retryCount = state[i].retryCount
            /\ ~StartsInvoke(i)]_vars

\* the invoke started at the mount failed once, reset() ran during its
\* backoff (retryCount back to 0) and its retry has now failed for good:
\* status = error, error and isFetched set again, with no other invoke
C16_Witness ==
  \E i \in Insts :
    /\ ~cfg[i].manual /\ cfg[i].autoRetry /\ cfg[i].maxRetries = 1
    /\ last.inst = i /\ last.op = "opFailure" /\ last.outcome = "rejected"
    /\ last.runs = 2 /\ ~last.stale /\ calls = 1 /\ InFlight(i) = {}
    /\ state[i].retryCount = 0 /\ state[i].status = "error"
    /\ state[i].error = last.value /\ state[i].isFetched
    /\ state[i].data = cfg[i].initialData

\* C17: in a retry sequence the status is error while the invoke waits for
\* its backoff and loading while a call of the operation (the first or a
\* retry) is awaited.  Stated for the runs in which the host has made no
\* call since the mount, so that the invoke is the only writer of the status.
C17_RetryAttemptsRunLoading ==
  \A k \in Slots :
    calls = 0 =>
      /\ inflight[k].pc = "backoff" => state[inflight[k].inst].status = "error"
      /\ inflight[k].pc = "await" => state[inflight[k].inst].status = "loading"

\* C18: when instance a has written the entry of the key it shares with
\* instance b (its attempt succeeded, or it called setData with a non-null
\* value) at t0, an invoke of b begun at now with now - t0 <= b's cacheTTL
\* is a cache hit: it resolves at once with a's value, b has status =
\* success and that value as data, and b's operation is not called.
C18_SharedCacheHit ==
  \A a, b \in Insts :
    (/\ a /= b /\ CacheOn(cfg[a]) /\ CacheOn(cfg[b])
     /\ cfg[a].cacheKey = cfg[b].cacheKey
     /\ Started /\ last.inst = b
     /\ storedAt[cfg[b].cacheKey].inst = a
     /\ now - storedAt[cfg[b].cacheKey].at <= cfg[b].cacheTTL) =>
      /\ last.hit /\ last.outcome = "resolved" /\ last.runs = 0
      /\ state[b].status = "success" /\ state[b].data = last.value
      /\ cache[cfg[b].cacheKey].data = last.value

\* C19: in every reachable state 0 <= retryCount <= max(maxRetries, 0), and
\* retryCount = 0 when autoRetry is off; and for a maxRetries below zero the
\* retry test fails at every attempt, so that the counter is never set.
Max(a, b) == IF a > b THEN a ELSE b

C19_RetryCountInRange ==
  /\ \A i \in Insts :
       /\ 0 <= state[i].retryCount
       /\ state[i].retryCount <= Max(cfg[i].maxRetries, 0)
       /\ ~cfg[i].autoRetry => state[i].retryCount = 0
  /\ \A m \in -2..DefaultMaxRetries, attempt \in 0..MaxAttemptChecked :
       ShouldRetry([autoRetry |-> TRUE, maxRetries |-> m], attempt) =>
         attempt + 1 <= Max(m, 0)

\* the counter at its maximum: maxRetries = 2 and the second retry is pending
C19_Witness ==
  \E i \in Insts :
    /\ cfg[i].autoRetry /\ cfg[i].maxRetries = 2 /\ state[i].retryCount = 2
    /\ last.op = "opFailure" /\ last.inst = i /\ last.outcome = "pending"

\* C20: when every awaited operation settles and every timer fires, the
\* suspended invokes all come to an end (each resolves or rejects); an invoke
\* calls the operation at most maxRetries + 1 times (once without autoRetry),
\* and the step in which it resolves or rejects leaves nothing of it pending.
MaxRuns(c) == IF c.autoRetry THEN Max(c.maxRetries, 0) + 1 ELSE 1

C20_InvokeTerminates ==
  /\ [](\A k \in Slots : inflight[k].runs <= MaxRuns(cfg[inflight[k].inst]))
  /\ [][\A i \in Insts :
          (last'.inst = i /\ last'.outcome \in {"resolved", "rejected"}) =>
            /\ last'.runs <= MaxRuns(cfg[i])
            /\ Cardinality(InFlightNext(i)) =
                 IF last'.hit /\ last'.op /= "backoffFire"
                 THEN Cardinality(InFlight(i))
                 ELSE Cardinality(InFlight(i)) - 1]_vars
  /\ (inflight /= <<>>) ~> (inflight = <<>>)

\* an invoke with maxRetries = 2 has rejected after three calls of the
\* operation, 3000 ms after it started; nothing is pending
C20_Witness ==
  \E i \in Insts :
    /\ cfg[i].autoRetry /\ cfg[i].maxRetries = 2
    /\ last.inst = i /\ last.op = "opFailure" /\ last.outcome = "rejected"
    /\ last.runs = 3 /\ inflight = <<>> /\ now >= 3000

TypeOK ==
  /\ now \in Nat
  /\ \A i \in Insts : state[i].status \in {"idle", "loading", "success", "error"}

====
